---- MODULE Spec2Model ----
(***************************************************************************)
(* Model of the numerical kernels of the repository "utilidades":          *)
(*   - src/Splines.py: CSpline (Hermite cubic spline with given slopes)    *)
(*     and CSpline_Clasica (slopes from a tridiagonal system);             *)
(*   - src/EcuacionesDiferencialesOrdinarias.py: the fixed-step            *)
(*     integrators SaltoRana and EulerCromer and their common set-up       *)
(*     routine _condiciones_iniciales.                                     *)
(* Real numbers are exact rationals <<n, d>> in lowest terms with d > 0.   *)
(* The pair <<0, 0>> stands for a non-finite float (inf or nan), which is  *)
(* what numpy produces on a division by zero.                              *)
(***************************************************************************)
EXTENDS Integers, Sequences, FiniteSets, TLC

VARIABLES
    cx, cy, cs,   \* the caller's sequences: nodes, values, slopes
    kind,         \* "list" or "ndarray": what the caller passes
    cls,          \* "CSpline" or "CSpline_Clasica": the class constructed
    pc,           \* "new", "built" (object returned) or "raised"
    self,         \* the spline object's own fields (xi, yi, si, ai, bi)
    exc,          \* the exception the last call raised, or "none"
    lin,          \* the linear system A s = p assembled by CSpline_Clasica
    last,         \* the last call of __call__: query, segment, result
    nwrites,      \* caller-side in-place writes done so far
    args,         \* the arguments the constructor was called with
    ode           \* the state of one run of an integrator

vars == <<cx, cy, cs, kind, cls, pc, self, exc, lin, last, nwrites, args, ode>>

(***************************************************************************)
(* Bounds of the model.                                                    *)
(***************************************************************************)
MaxN == 3        \* most nodes of a spline
MaxWrites == 1   \* most caller-side writes in one behaviour
MaxT == 3        \* most entries of the time grid of an integrator

Coords == 0..MaxN        \* node coordinates
Values == {0, 1}         \* values to interpolate
Slopes == {-1, 1}        \* slopes given to CSpline

(***************************************************************************)
(* Exact arithmetic standing for numpy's float arithmetic.                 *)
(***************************************************************************)
NonFinite == <<0, 0>>

Abs(n) == IF n < 0 THEN -n ELSE n

RECURSIVE GCD(_, _)
GCD(a, b) == IF b = 0 THEN a ELSE GCD(b, a % b)

Rat(n, d) ==
    IF d = 0 THEN NonFinite
    ELSE LET g == GCD(Abs(n), Abs(d))
             sg == IF d < 0 THEN -1 ELSE 1
         IN  <<(sg * n) \div g, (sg * d) \div g>>

R(n) == <<n, 1>>

IsFinite(a) == a[2] # 0

\* inf and nan absorb +, - and *; no divisor of the program is non-finite
RAdd(a, b) ==
    IF IsFinite(a) /\ IsFinite(b) THEN Rat(a[1] * b[2] + b[1] * a[2], a[2] * b[2])
    ELSE NonFinite

RSub(a, b) ==
    IF IsFinite(a) /\ IsFinite(b) THEN Rat(a[1] * b[2] - b[1] * a[2], a[2] * b[2])
    ELSE NonFinite

RMul(a, b) ==
    IF IsFinite(a) /\ IsFinite(b) THEN Rat(a[1] * b[1], a[2] * b[2])
    ELSE NonFinite

\* x / 0 is inf or nan (a RuntimeWarning, not an exception)
RDiv(a, b) ==
    IF IsFinite(a) /\ IsFinite(b) /\ b[1] # 0 THEN Rat(a[1] * b[2], a[2] * b[1])
    ELSE NonFinite

RLess(a, b) == a[1] * b[2] < b[1] * a[2]

RLeq(a, b) == a[1] * b[2] <= b[1] * a[2]

RAbs(a) == <<Abs(a[1]), a[2]>>

AllFinite(v) == \A i \in 1..Len(v) : IsFinite(v[i])

(***************************************************************************)
(* numpy array operations on one-dimensional arrays.                       *)
(***************************************************************************)
\* np.diff
Diff(v) == [i \in 1..(Len(v) - 1) |-> RSub(v[i + 1], v[i])]

\* shapes (n,) broadcast together iff at most one length other than 1 occurs
Broadcastable(lens) == Cardinality(lens \ {1}) <= 1

BroadcastLen(lens) == IF lens \ {1} = {} THEN 1 ELSE CHOOSE n \in lens \ {1} : TRUE

\* element i of v once broadcast
At(v, i) == IF Len(v) = 1 THEN v[1] ELSE v[i]

Tail1(v) == [i \in 1..(Len(v) - 1) |-> v[i + 1]]     \* v[1:]
Front(v) == [i \in 1..(Len(v) - 1) |-> v[i]]         \* v[:-1]

(***************************************************************************)
(* CSpline.__init__                                                        *)
(***************************************************************************)
\* ai[i] of line 38
CoefA(dyi, dxi, s0, s1) ==
    RDiv(RSub(RSub(RDiv(RMul(R(3), dyi), dxi), s1), RMul(R(2), s0)), dxi)

\* bi[i] divided by dx instead of dx**2
CoefB_Unsquared(dyi, dxi, s0, s1) ==
    RDiv(RSub(RAdd(s1, s0), RDiv(RMul(R(2), dyi), dxi)), dxi)

\* bi[i] of line 39
CoefB(dyi, dxi, s0, s1) ==
    RDiv(RSub(RAdd(s1, s0), RDiv(RMul(R(2), dyi), dxi)), RMul(dxi, dxi))

NoSpline == [xi |-> <<>>, yi |-> <<>>, si |-> <<>>, ai |-> <<>>, bi |-> <<>>]

\* The fields after __init__(xi, yi, si), or the exception it raises.
CSplineInit(xi, yi, si) ==
    LET dx == Diff(xi)
        dy == Diff(yi)
        lens == {Len(dy), Len(dx), Len(si) - 1}
        n == BroadcastLen(lens)
    IN  IF ~Broadcastable(lens)
        THEN [exc |-> "ValueError", obj |-> NoSpline]
        ELSE [exc |-> "none",
              obj |-> [xi |-> xi, yi |-> yi, si |-> si,
                       ai |-> [i \in 1..n |->
                                 CoefA(At(dy, i), At(dx, i),
                                       At(Front(si), i), At(Tail1(si), i))],
                       bi |-> [i \in 1..n |->
                                 CoefB(At(dy, i), At(dx, i),
                                       At(Front(si), i), At(Tail1(si), i))]]]

(***************************************************************************)
(* scipy.linalg.solve_banded((1, 1), A, p): LAPACK's gtsv, Gaussian         *)
(* elimination with partial pivoting of a tridiagonal system.              *)
(*   dl[i] = A[2, i-1] (row i+1, column i), d[i] = A[1, i-1],              *)
(*   du[i] = A[0, i]   (row i, column i+1), all indices from 1.            *)
(***************************************************************************)
GtsvStep(st, i, n) ==
    IF RLeq(RAbs(st.dl[i]), RAbs(st.d[i]))
    THEN IF st.d[i][1] # 0
         THEN LET fact == RDiv(st.dl[i], st.d[i])
              IN  [st EXCEPT !.d[i + 1] = RSub(@, RMul(fact, st.du[i])),
                             !.b[i + 1] = RSub(@, RMul(fact, st.b[i])),
                             !.dl[i] = R(0)]
         ELSE [st EXCEPT !.info = i]
    ELSE LET fact == RDiv(st.d[i], st.dl[i])
             temp == st.d[i + 1]
             s1 == [st EXCEPT !.d[i] = st.dl[i],
                              !.d[i + 1] = RSub(st.du[i], RMul(fact, temp)),
                              !.du[i] = temp,
                              !.b[i] = st.b[i + 1],
                              !.b[i + 1] = RSub(st.b[i], RMul(fact, st.b[i + 1]))]
         IN  IF i < n - 1
             THEN [s1 EXCEPT !.dl[i] = st.du[i + 1],
                             !.du[i + 1] = RMul(RSub(R(0), fact), st.du[i + 1])]
             ELSE s1

RECURSIVE GtsvEliminate(_, _, _)
GtsvEliminate(st, i, n) ==
    IF i > n - 1 \/ st.info # 0 THEN st
    ELSE GtsvEliminate(GtsvStep(st, i, n), i + 1, n)

RECURSIVE GtsvBack(_, _, _)
GtsvBack(st, i, n) ==
    IF i < 1 THEN st
    ELSE LET r1 == IF i + 1 <= n THEN RSub(st.b[i], RMul(st.du[i], st.b[i + 1]))
                   ELSE st.b[i]
             r2 == IF i + 2 <= n THEN RSub(r1, RMul(st.dl[i], st.b[i + 2]))
                   ELSE r1
         IN  GtsvBack([st EXCEPT !.b[i] = RDiv(r2, st.d[i])], i - 1, n)

\* The solution, or the exception solve_banded raises.
SolveBanded(A, p) ==
    LET n == Len(p)
        st0 == [dl |-> [i \in 1..(n - 1) |-> A.low[i]],
                d |-> A.main,
                du |-> [i \in 1..(n - 1) |-> A.up[i + 1]],
                b |-> p, info |-> 0]
        st1 == GtsvEliminate(st0, 1, n)
    IN  IF ~(AllFinite(A.up) /\ AllFinite(A.main) /\ AllFinite(A.low) /\ AllFinite(p))
        THEN [exc |-> "ValueError", x |-> <<>>]       \* check_finite
        ELSE IF st1.info # 0 \/ st1.d[n][1] = 0
        THEN [exc |-> "LinAlgError", x |-> <<>>]      \* singular matrix
        ELSE [exc |-> "none", x |-> GtsvBack(st1, n, n).b]

(***************************************************************************)
(* CSpline_Clasica.__init__                                                *)
(***************************************************************************)
\* the upper diagonal filled from dx[1:] instead of dx[:-1]
ClasicaMatrix_UpperShifted(dx) ==
    LET n == Len(dx) + 1
    IN  [up   |-> [j \in 1..n |-> IF j = 1 THEN R(0)
                                  ELSE IF j = 2 THEN R(1) ELSE dx[j - 1]],
         main |-> [j \in 1..n |-> IF j = 1 \/ j = n THEN R(2)
                                  ELSE RMul(R(2), RAdd(dx[j - 1], dx[j]))],
         low  |-> [j \in 1..n |-> IF j = n THEN R(0)
                                  ELSE IF j = n - 1 THEN R(1) ELSE dx[j + 1]]]

\* The three diagonals, lines 90-103, in solve_banded's layout: column j of
\* `up` is the entry above the diagonal in column j, of `low` the one below.
ClasicaMatrix(dx) ==
    LET n == Len(dx) + 1
    IN  [up   |-> [j \in 1..n |-> IF j = 1 THEN R(0)
                                  ELSE IF j = 2 THEN R(1) ELSE dx[j - 2]],
         main |-> [j \in 1..n |-> IF j = 1 \/ j = n THEN R(2)
                                  ELSE RMul(R(2), RAdd(dx[j - 1], dx[j]))],
         low  |-> [j \in 1..n |-> IF j = n THEN R(0)
                                  ELSE IF j = n - 1 THEN R(1) ELSE dx[j + 1]]]

\* line 108: p[:-1] = 3*dy/dx, the last entry still zero
RhsSlopes(dy, dx) ==
    [j \in 1..(Len(dx) + 1) |->
        IF j <= Len(dx) THEN RDiv(RMul(R(3), At(dy, j)), dx[j]) ELSE R(0)]

\* line 109 left out: the last entry stays zero
RhsLast_Missing(p) == p

\* line 109: p[-1] = p[-2]
RhsLast(p) == [p EXCEPT ![Len(p)] = p[Len(p) - 1]]

\* line 110: p[1:-1] = p[1:-1] * dx[:-1] + p[:-2] * dx[1:]
RhsInterior(p, dx) ==
    [j \in 1..Len(p) |->
        IF 1 < j /\ j < Len(p)
        THEN RAdd(RMul(p[j], dx[j - 1]), RMul(p[j - 1], dx[j]))
        ELSE p[j]]

\* lines 109 and 110 in the other order
ClasicaRhs_LastAfterInterior(dy, dx) == RhsLast(RhsInterior(RhsSlopes(dy, dx), dx))

\* lines 106-110
ClasicaRhs(dy, dx) == RhsInterior(RhsLast(RhsSlopes(dy, dx)), dx)

NoSystem == [A |-> [up |-> <<>>, main |-> <<>>, low |-> <<>>], p |-> <<>>]

\* The system, the fields after __init__(xi, yi), or the exception raised.
ClasicaInit(xi, yi) ==
    LET dx == Diff(xi)
        dy == Diff(yi)
        A == ClasicaMatrix(dx)
    IN  IF ~(Len(dy) = Len(dx) \/ Len(dy) = 1)
        THEN [exc |-> "ValueError", obj |-> NoSpline, sys |-> NoSystem]
        ELSE LET p == ClasicaRhs(dy, dx)
                 sol == SolveBanded(A, p)
             IN  IF sol.exc # "none"
                 THEN [exc |-> sol.exc, obj |-> NoSpline, sys |-> [A |-> A, p |-> p]]
                 ELSE LET r == CSplineInit(xi, yi, sol.x)
                      IN  [exc |-> r.exc, obj |-> r.obj, sys |-> [A |-> A, p |-> p]]

(***************************************************************************)
(* CSpline.__call__                                                        *)
(***************************************************************************)
\* np.searchsorted(arr, key, side="right"): numpy's binary search, which
\* returns the number of entries <= key when arr is sorted.
RECURSIVE BinSearchRight(_, _, _, _)
BinSearchRight(arr, key, lo, hi) ==
    IF lo >= hi THEN lo
    ELSE LET mid == lo + ((hi - lo) \div 2)
         IN  IF RLess(key, arr[mid + 1])
             THEN BinSearchRight(arr, key, lo, mid)
             ELSE BinSearchRight(arr, key, mid + 1, hi)

\* side="left": the number of entries < key
SearchSortedLeft(arr, key) == Cardinality({k \in 1..Len(arr) : RLess(arr[k], key)})

SearchSortedRight(arr, key) == BinSearchRight(arr, key, 0, Len(arr))

Max2(a, b) == IF a >= b THEN a ELSE b
Min2(a, b) == IF a <= b THEN a ELSE b

\* np.clip(i, lo, hi)
Clip(i, lo, hi) == Min2(Max2(i, lo), hi)

\* the segment clamped to N-1 instead of N-2
Segment_ClipToLastNode(obj, q) ==
    Clip(SearchSortedRight(obj.xi, q) - 1, 0, Len(obj.xi) - 1)

\* line 46 and line 50: the segment, counted from 0 as in the code
Segment(obj, q) == Clip(SearchSortedRight(obj.xi, q) - 1, 0, Len(obj.xi) - 2)

\* line 54: Horner evaluation of the cubic of segment i (from 0) at distance dx
Horner(obj, i, dx) ==
    RAdd(obj.yi[i + 1],
         RMul(dx, RAdd(obj.si[i + 1],
                       RMul(dx, RAdd(obj.ai[i + 1], RMul(dx, obj.bi[i + 1]))))))

NoCall == [called |-> FALSE, q |-> R(0), i |-> 0, dx |-> R(0), val |-> R(0),
           exc |-> "none"]

\* __call__(x) for a scalar x: the value returned, or the exception raised
Call(obj, q) ==
    LET i == Segment(obj, q)
        dx == RSub(q, obj.xi[i + 1])
    IN  IF i + 1 > Len(obj.yi) \/ i + 1 > Len(obj.si)
           \/ i + 1 > Len(obj.ai) \/ i + 1 > Len(obj.bi)
        THEN [called |-> TRUE, q |-> q, i |-> i, dx |-> dx, val |-> R(0),
              exc |-> "IndexError"]
        ELSE [called |-> TRUE, q |-> q, i |-> i, dx |-> dx,
              val |-> Horner(obj, i, dx), exc |-> "none"]

(***************************************************************************)
(* The caller and the spline object.                                       *)
(***************************************************************************)
\* np.asarray returns its argument itself when that is already an ndarray,
\* and a new array when it is a list (lines 30-32).
AsArrayShares(k) == k = "ndarray"

ToReals(v) == [i \in 1..Len(v) |-> R(v[i])]

StrictlyIncreasing(v) == \A i \in 1..(Len(v) - 1) : RLess(v[i], v[i + 1])

Queries == {Rat(k, 2) : k \in (-2)..(2 * MaxN + 2)}

NoArgs == [x |-> <<>>, y |-> <<>>, s |-> <<>>]

NoOde == [pc |-> "idle"]

\* p = CSpline(xi, yi, si)
Construct ==
    /\ pc = "new"
    /\ cls = "CSpline"
    /\ LET r == CSplineInit(cx, cy, cs)
       IN  /\ pc' = IF r.exc = "none" THEN "built" ELSE "raised"
           /\ exc' = r.exc
           /\ self' = r.obj
    /\ args' = [x |-> cx, y |-> cy, s |-> cs]
    /\ UNCHANGED <<cx, cy, cs, kind, cls, lin, last, nwrites, ode>>

\* p = CSpline_Clasica(xi, yi)
ConstructClasica ==
    /\ pc = "new"
    /\ cls = "CSpline_Clasica"
    /\ LET r == ClasicaInit(cx, cy)
       IN  /\ pc' = IF r.exc = "none" THEN "built" ELSE "raised"
           /\ exc' = r.exc
           /\ self' = r.obj
           /\ lin' = r.sys
    /\ args' = [x |-> cx, y |-> cy, s |-> <<>>]
    /\ UNCHANGED <<cx, cy, cs, kind, cls, last, nwrites, ode>>

\* p(q)
Evaluate ==
    /\ pc = "built"
    /\ \E q \in Queries : last' = Call(self, q)
    /\ UNCHANGED <<cx, cy, cs, kind, cls, pc, self, exc, lin, nwrites, args, ode>>

\* The caller stores a number into one of the sequences it passed to the
\* constructor; an ndarray it passed is the array the object reads.
CallerWrite ==
    /\ pc = "built"
    /\ nwrites < MaxWrites
    /\ nwrites' = nwrites + 1
    /\ \E w \in {R(2)} :
         \/ \E k \in 1..Len(cx) :
              /\ cx' = [cx EXCEPT ![k] = w]
              /\ self' = IF AsArrayShares(kind) THEN [self EXCEPT !.xi[k] = w] ELSE self
              /\ UNCHANGED <<cy, cs>>
         \/ \E k \in 1..Len(cy) :
              /\ cy' = [cy EXCEPT ![k] = w]
              /\ self' = IF AsArrayShares(kind) THEN [self EXCEPT !.yi[k] = w] ELSE self
              /\ UNCHANGED <<cx, cs>>
         \/ \E k \in 1..Len(cs) :
              /\ cls = "CSpline"
              /\ cs' = [cs EXCEPT ![k] = w]
              /\ self' = IF AsArrayShares(kind) THEN [self EXCEPT !.si[k] = w] ELSE self
              /\ UNCHANGED <<cx, cy>>
    /\ UNCHANGED <<kind, cls, pc, exc, lin, last, args, ode>>

IncreasingSeqs(n) ==
    {v \in [1..n -> Coords] : \A i \in 1..(n - 1) : v[i] < v[i + 1]}

\* The caller holds strictly increasing nodes and as many values and slopes.
InitValid ==
    /\ \E n \in 2..MaxN :
         /\ cx \in {ToReals(v) : v \in IncreasingSeqs(n)}
         /\ cy \in {ToReals(v) : v \in [1..n -> Values]}
         /\ \/ cls = "CSpline" /\ cs \in {ToReals(v) : v \in [1..n -> Slopes]}
            \/ cls = "CSpline_Clasica" /\ cs = <<>>
    /\ kind \in {"list", "ndarray"}
    /\ pc = "new"
    /\ self = NoSpline
    /\ exc = "none"
    /\ lin = NoSystem
    /\ last = NoCall
    /\ nwrites = 0
    /\ args = NoArgs
    /\ ode = NoOde

NextSpline == Construct \/ ConstructClasica \/ Evaluate

Spec == InitValid /\ [][NextSpline]_vars

\* The caller holds any nodes, and values and slopes of any lengths.
InitAny ==
    /\ cx \in {ToReals(v) : v \in UNION {[1..n -> 0..2] : n \in 2..MaxN}}
    /\ cy \in {ToReals(v) : v \in UNION {[1..n -> Values] : n \in 1..MaxN}}
    /\ \/ /\ cls = "CSpline"
          /\ cs \in {ToReals(v) : v \in UNION {[1..n -> Slopes] : n \in 1..MaxN}}
       \/ cls = "CSpline_Clasica" /\ cs = <<>>
    /\ kind \in {"list", "ndarray"}
    /\ pc = "new"
    /\ self = NoSpline
    /\ exc = "none"
    /\ lin = NoSystem
    /\ last = NoCall
    /\ nwrites = 0
    /\ args = NoArgs
    /\ ode = NoOde

SpecAny == InitAny /\ [][NextSpline]_vars

NextCaller == Construct \/ ConstructClasica \/ Evaluate \/ CallerWrite

SpecCaller == InitValid /\ [][NextCaller]_vars

(***************************************************************************)
(* src/EcuacionesDiferencialesOrdinarias.py.  Initial conditions are       *)
(* one-dimensional arrays; an array of shape (steps, k) is a sequence of   *)
(* `steps` rows of k numbers.                                              *)
(***************************************************************************)
VAdd(u, v) == [i \in 1..Len(u) |-> RAdd(u[i], v[i])]

VScale(c, v) == [i \in 1..Len(v) |-> RMul(c, v[i])]

\* A Python value that is an int, and one that is a tuple of ints
PyInt(n) == [tag |-> "int", v |-> n]
PyTuple(s) == [tag |-> "tuple", v |-> s]

TSize(t) == PyInt(Len(t))          \* t.size
TShape(t) == PyTuple(<<Len(t)>>)   \* t.shape

\* np.zeros((steps, *shape)): every entry of the shape must be an integer
NpZeros(steps, shape) ==
    IF steps.tag # "int"
    THEN [exc |-> "TypeError", arr |-> <<>>]
    ELSE [exc |-> "none",
          arr |-> [n \in 1..steps.v |-> [i \in 1..shape[1] |-> R(0)]]]

\* _condiciones_iniciales(steps, r0, v0), lines 20-32
CondicionesIniciales(steps, r0, v0) ==
    LET shape == <<Len(r0)>>
        z == NpZeros(steps, shape)
    IN  IF <<Len(r0)>> # <<Len(v0)>>
        THEN [exc |-> "ValueError", r |-> <<>>, v |-> <<>>]
        ELSE IF z.exc # "none"
        THEN [exc |-> z.exc, r |-> <<>>, v |-> <<>>]
        ELSE [exc |-> "none",
              r |-> [z.arr EXCEPT ![1] = r0],
              v |-> [z.arr EXCEPT ![1] = v0]]

\* The acceleration a(r, t) the caller passes
Accel(f, r, t) ==
    IF f = "spring" THEN VScale(R(-1), r)
    ELSE [i \in 1..Len(r) |-> RSub(t, r[i])]

Half == Rat(1, 2)

\* The `steps` argument each integrator gives _condiciones_iniciales
StepsArg(method, t) == IF method = "EulerCromer" THEN TShape(t) ELSE TSize(t)

\* The integrator is entered: lines 55-59 of SaltoRana, 123-124 of EulerCromer.
OdeEnter ==
    /\ ode.pc = "call"
    /\ LET c == CondicionesIniciales(StepsArg(ode.method, ode.t), ode.r0, ode.v0)
       IN  ode' = [ode EXCEPT
                     !.pc = IF c.exc = "none" THEN "loop" ELSE "raised",
                     !.exc = c.exc,
                     !.dt = Diff(ode.t),
                     !.r = c.r,
                     !.v = c.v,
                     !.a0 = IF c.exc = "none" /\ ode.method = "SaltoRana"
                            THEN Accel(ode.f, ode.r0, ode.t[1]) ELSE <<>>]
    /\ UNCHANGED <<cx, cy, cs, kind, cls, pc, self, exc, lin, last, nwrites, args>>

\* One pass of the loop `for n in range(t.size-1)`; ode.n is n.
OdeStep ==
    /\ ode.pc = "loop"
    /\ ode.n < Len(ode.t) - 1
    /\ LET n == ode.n + 1
           dtn == ode.dt[n]
       IN  IF ode.method = "SaltoRana"
           THEN LET vmedio == VAdd(ode.v[n], VScale(RMul(Half, dtn), ode.a0))
                    rn == VAdd(ode.r[n], VScale(dtn, vmedio))
                    an == Accel(ode.f, rn, ode.t[n + 1])
                IN  ode' = [ode EXCEPT
                              !.r[n + 1] = rn,
                              !.a0 = an,
                              !.v[n + 1] = VAdd(vmedio, VScale(RMul(Half, dtn), an)),
                              !.n = ode.n + 1]
           ELSE LET rn == VAdd(ode.r[n], VScale(dtn, ode.v[n]))
                IN  ode' = [ode EXCEPT
                              !.r[n + 1] = rn,
                              !.v[n + 1] = VAdd(ode.v[n],
                                                VScale(dtn, Accel(ode.f, rn, ode.t[n + 1]))),
                              !.n = ode.n + 1]
    /\ UNCHANGED <<cx, cy, cs, kind, cls, pc, self, exc, lin, last, nwrites, args>>

\* return r, v
OdeReturn ==
    /\ ode.pc = "loop"
    /\ ode.n = Len(ode.t) - 1
    /\ ode' = [ode EXCEPT !.pc = "returned"]
    /\ UNCHANGED <<cx, cy, cs, kind, cls, pc, self, exc, lin, last, nwrites, args>>

Times == UNION {{ToReals(v) : v \in {w \in [1..n -> 0..MaxT] :
                      \A i \in 1..(n - 1) : w[i] < w[i + 1]}} : n \in 1..MaxT}

Conditions == {ToReals(v) : v \in UNION {[1..k -> {0, 1}] : k \in 1..2}}

InitOde ==
    /\ cx = <<>> /\ cy = <<>> /\ cs = <<>>
    /\ kind = "list"
    /\ cls = "CSpline"
    /\ pc = "idle"
    /\ self = NoSpline
    /\ exc = "none"
    /\ lin = NoSystem
    /\ last = NoCall
    /\ nwrites = 0
    /\ args = NoArgs
    /\ \E method \in {"SaltoRana", "EulerCromer"}, f \in {"spring", "driven"},
          t \in Times, r0 \in Conditions, v0 \in Conditions :
         ode = [pc |-> "call", method |-> method, f |-> f, t |-> t,
                r0 |-> r0, v0 |-> v0, dt |-> <<>>, r |-> <<>>, v |-> <<>>,
                a0 |-> <<>>, n |-> 0, exc |-> "none"]

NextOde == OdeEnter \/ OdeStep \/ OdeReturn

SpecOde == InitOde /\ [][NextOde]_vars

(***************************************************************************)
(* Properties.  The cubic of segment i (counted from 1 here) and its       *)
(* derivatives, written out term by term from the polynomial               *)
(*   p_i(x) = y_i + s_i (x-x_i) + a_i (x-x_i)^2 + b_i (x-x_i)^3.           *)
(***************************************************************************)
PolyVal(obj, i, dx) ==
    RAdd(RAdd(obj.yi[i], RMul(obj.si[i], dx)),
         RAdd(RMul(obj.ai[i], RMul(dx, dx)),
              RMul(obj.bi[i], RMul(dx, RMul(dx, dx)))))

PolyD1(obj, i, dx) ==
    RAdd(obj.si[i],
         RAdd(RMul(R(2), RMul(obj.ai[i], dx)),
              RMul(R(3), RMul(obj.bi[i], RMul(dx, dx)))))

PolyD2(obj, i, dx) ==
    RAdd(RMul(R(2), obj.ai[i]), RMul(R(6), RMul(obj.bi[i], dx)))

\* the width of segment i of the constructor's nodes
Width(i) == RSub(args.x[i + 1], args.x[i])

\* the average slope dy_i/dx_i of the constructor's data over segment i
Chord(i) == RDiv(RSub(args.y[i + 1], args.y[i]), Width(i))

NNodes == Len(args.x)

\* the constructor was given strictly increasing nodes and equal lengths
ValidArgs ==
    /\ NNodes >= 2
    /\ StrictlyIncreasing(args.x)
    /\ Len(args.y) = NNodes
    /\ cls = "CSpline" => Len(args.s) = NNodes

SameLengths ==
    /\ Len(args.y) = Len(args.x)
    /\ cls = "CSpline" => Len(args.s) = Len(args.x)

\* the index, from 0, of the last node <= q; -1 when there is none
LastNodeLeq(q) == Cardinality({k \in 1..NNodes : RLeq(args.x[k], q)}) - 1

\* C1: a spline built over strictly increasing nodes returns y_i when it is
\* evaluated at the node x_i, for every node, the last one included.
C1_Interpolation ==
    (pc = "built" /\ ValidArgs /\ last.called) =>
        \A i \in 1..NNodes :
            last.q = args.x[i] => (last.exc = "none" /\ last.val = args.y[i])

\* C1 witness: a natural spline was evaluated at its last node, through the
\* clamped segment N-2, and returned the last value, which differs from the
\* value at the node before.
C1_Witness ==
    /\ pc = "built" /\ ValidArgs /\ cls = "CSpline_Clasica" /\ last.called
    /\ NNodes = 3
    /\ last.q = args.x[NNodes]
    /\ last.i = NNodes - 2
    /\ last.val = args.y[NNodes]
    /\ args.y[NNodes] # args.y[NNodes - 1]

\* C2: __call__ never fails and evaluates the cubic of the segment
\* clamp(index of the last node <= q, 0, N-2) at dx = q - x_i; below the first
\* node that is segment 0 with dx < 0, at or above the last node it is segment
\* N-2 with dx >= x_{N-1} - x_{N-2}.
C2_BoundaryPolicy ==
    (pc = "built" /\ ValidArgs /\ last.called) =>
        /\ last.exc = "none"
        /\ last.i = Clip(LastNodeLeq(last.q), 0, NNodes - 2)
        /\ last.dx = RSub(last.q, args.x[last.i + 1])
        /\ last.val = PolyVal(self, last.i + 1, last.dx)
        /\ RLess(last.q, args.x[1]) => (last.i = 0 /\ RLess(last.dx, R(0)))
        /\ RLeq(args.x[NNodes], last.q) =>
               (last.i = NNodes - 2 /\ RLeq(Width(NNodes - 1), last.dx))

\* C2 witness: a query above the last node of a three-node spline was answered
\* from segment N-2 with a value other than the boundary value y_{N-1}.
C2_Witness ==
    /\ pc = "built" /\ ValidArgs /\ last.called /\ NNodes = 3
    /\ RLess(args.x[NNodes], last.q)
    /\ last.i = 1
    /\ last.exc = "none"
    /\ last.val # args.y[NNodes]

\* C3: no spline object is returned for nodes that are not strictly increasing
\* (here with values and slopes of the right lengths).
C3_InvalidNodesRejected ==
    (pc = "built" /\ SameLengths) => StrictlyIncreasing(args.x)

\* C4: no spline object is returned when nodes, values and slopes differ in
\* length (here with strictly increasing nodes).
C4_ShapeMismatchRejected ==
    (pc = "built" /\ StrictlyIncreasing(args.x)) => SameLengths

\* C5: in a natural spline over N >= 3 strictly increasing nodes, the second
\* derivatives of the two cubics that meet at an interior node agree there.
C5_SecondDerivativeContinuous ==
    (pc = "built" /\ ValidArgs /\ cls = "CSpline_Clasica") =>
        \A k \in 2..(NNodes - 1) :
            PolyD2(self, k - 1, Width(k - 1)) = PolyD2(self, k, R(0))

\* C5 witness: a natural spline over unevenly spaced nodes whose second
\* derivative at the interior node is not zero.
C5_Witness ==
    /\ pc = "built" /\ ValidArgs /\ cls = "CSpline_Clasica" /\ NNodes = 3
    /\ Width(1) # Width(2)
    /\ PolyD2(self, 2, R(0)) # R(0)
    /\ PolyD2(self, 1, Width(1)) = PolyD2(self, 2, R(0))

\* C6: the coefficients a_i, b_i stored by CSpline make the cubic of every
\* segment i take the value y_{i+1} and the slope s_{i+1} at x_{i+1}.
C6_HermiteConditions ==
    (pc = "built" /\ ValidArgs) =>
        \A i \in 1..(NNodes - 1) :
            /\ PolyVal(self, i, Width(i)) = self.yi[i + 1]
            /\ PolyD1(self, i, Width(i)) = self.si[i + 1]
            /\ self.yi[i + 1] = args.y[i + 1]
            /\ cls = "CSpline" => self.si[i + 1] = args.s[i + 1]

\* C6 witness: a spline built from given slopes over unevenly spaced nodes,
\* with a cubic that is a genuine cubic.
C6_Witness ==
    /\ pc = "built" /\ ValidArgs /\ cls = "CSpline" /\ NNodes = 3
    /\ Width(1) # Width(2)
    /\ self.bi[1] # R(0) /\ self.bi[2] # R(0)
    /\ PolyD1(self, 1, Width(1)) = args.s[2]

\* C7: once a spline is constructed, its stored nodes, values, slopes and
\* coefficients never change.
C7_Immutable == [][pc = "built" => self' = self]_vars

\* C8: EulerCromer called with r0 and v0 of one shape returns arrays r, v with
\* one row per time, r[0] = r0, v[0] = v0, and each later row given by the
\* Euler-Cromer recurrence.
C8_EulerCromerReturns ==
    (/\ ode.pc \in {"returned", "raised"}
     /\ ode.method = "EulerCromer"
     /\ Len(ode.r0) = Len(ode.v0)) =>
        /\ ode.pc = "returned"
        /\ Len(ode.r) = Len(ode.t) /\ Len(ode.v) = Len(ode.t)
        /\ ode.r[1] = ode.r0 /\ ode.v[1] = ode.v0
        /\ ode.n = Len(ode.t) - 1
        /\ \A n \in 1..(Len(ode.t) - 1) :
             LET dtn == RSub(ode.t[n + 1], ode.t[n])
             IN  /\ ode.r[n + 1] = VAdd(ode.r[n], VScale(dtn, ode.v[n]))
                 /\ ode.v[n + 1] =
                      VAdd(ode.v[n],
                           VScale(dtn, Accel(ode.f, ode.r[n + 1], ode.t[n + 1])))

\* C9 as stated: the right-hand side of row N-1 equals that of row N-2.
C9_LastTwoRowsEqual ==
    (pc = "built" /\ ValidArgs /\ cls = "CSpline_Clasica") =>
        lin.p[NNodes] = lin.p[NNodes - 1]

\* C9 amended: the right-hand side of row N-1 is 3*dy_{N-2}/dx_{N-2}; row N-2
\* holds the same number only when N = 2, and for N >= 3 it holds the interior
\* combination 3*(dy_{N-3}/dx_{N-3}*dx_{N-2} + dy_{N-2}/dx_{N-2}*dx_{N-3}).
C9_LastRow ==
    (pc = "built" /\ ValidArgs /\ cls = "CSpline_Clasica") =>
        /\ lin.p[NNodes] = RMul(R(3), Chord(NNodes - 1))
        /\ NNodes = 2 => lin.p[NNodes - 1] = lin.p[NNodes]
        /\ NNodes >= 3 =>
             lin.p[NNodes - 1] =
                 RMul(R(3), RAdd(RMul(Chord(NNodes - 2), Width(NNodes - 1)),
                                 RMul(Chord(NNodes - 1), Width(NNodes - 2))))

\* C9 witness: a system of three rows whose last two right-hand sides differ.
C9_Witness ==
    /\ pc = "built" /\ ValidArgs /\ cls = "CSpline_Clasica" /\ NNodes = 3
    /\ lin.p[3] = RMul(R(3), Chord(2))
    /\ lin.p[3] # lin.p[2]

\* the second derivative of a natural spline at its first and last node
EndCurvatures(obj) ==
    LET n == Len(obj.xi)
    IN  <<PolyD2(obj, 1, R(0)),
          PolyD2(obj, n - 1, RSub(obj.xi[n], obj.xi[n - 1]))>>

\* C10 as stated: some strictly increasing nodes and values give a natural
\* spline whose second derivative at an end node is not zero.
C10_SomeEndCurvature ==
    pc \in {"new", "built", "raised"} =>
        \E n \in 2..MaxN :
            \E x \in IncreasingSeqs(n), y \in [1..n -> Values] :
                EndCurvatures(ClasicaInit(ToReals(x), ToReals(y)).obj) # <<R(0), R(0)>>

\* C10 amended: rows 0 and N-1 are the natural boundary conditions: every
\* natural spline over strictly increasing nodes has second derivative zero at
\* its first and at its last node.
C10_EndCurvatureZero ==
    (pc = "built" /\ ValidArgs /\ cls = "CSpline_Clasica") =>
        /\ PolyD2(self, 1, R(0)) = R(0)
        /\ PolyD2(self, NNodes - 1, Width(NNodes - 1)) = R(0)

\* C10 witness: a natural spline that is not a straight line, with end rows
\* 2*s_0 + s_1 = 3*dy_0/dx_0 and s_{N-2} + 2*s_{N-1} = 3*dy_{N-2}/dx_{N-2}.
C10_Witness ==
    /\ pc = "built" /\ ValidArgs /\ cls = "CSpline_Clasica" /\ NNodes = 3
    /\ self.bi[1] # R(0)
    /\ RAdd(RMul(R(2), self.si[1]), self.si[2]) = RMul(R(3), Chord(1))
    /\ RAdd(self.si[2], RMul(R(2), self.si[3])) = RMul(R(3), Chord(2))
    /\ EndCurvatures(self) = <<R(0), R(0)>>

====
